---- MODULE Spec2Model ----
(***************************************************************************)
(* pypcode: the Python layer over the csleigh decode oracle.               *)
(*                                                                         *)
(* The module models src/pypcode/__init__.py: the per-Context cache of     *)
(* address spaces (AddrSpace.from_c), Context.translate with its recursive *)
(* delay-slot expansion, the error classifier (SleighErrorFactory) and the *)
(* p-code pretty printer (PcodePrettyPrinter).  The native csleigh library *)
(* is not part of the sources: its answers are nondeterministic choices    *)
(* over bounded sets, shaped as section 6 of the specification describes.  *)
(***************************************************************************)
EXTENDS Integers, Sequences, FiniteSets, TLC

(***************************************************************************)
(* Bounds of the model.                                                    *)
(***************************************************************************)
MaxBuf == 2          \* longest top-level buffer handed to translate
MaxInstLen == 2      \* longest encoded instruction the oracle reports
MaxDelay == 2        \* largest delay-slot byte length the oracle reports
MaxInsts == 2        \* most instructions the oracle reports in one decode
MaxInputs == 3       \* most inputs of a PcodeOp handed to the pretty printer
MaxFmtCalls == 3     \* most fmt_op calls in one behaviour

\* Python's None.
None == [class |-> "NoneType"]

(***************************************************************************)
(* The oracle's address spaces.  A csleigh_AddrSpace handle is a pointer;  *)
(* the model numbers the handles 1..NumSpaces in the order                 *)
(* csleigh_AddrSpaceManager_getSpace enumerates them.                      *)
(***************************************************************************)
SpaceNames == <<"const", "register", "ram", "unique">>
NumSpaces == Len(SpaceNames)
Handles == 1..NumSpaces
csleigh_AddrSpace_getName(cobj) == SpaceNames[cobj]
HandleOf(name) == CHOOSE h \in Handles : SpaceNames[h] = name
CodeSpace == HandleOf("ram")

VARIABLES
  cached_addr_spaces,  \* Context._cached_addr_spaces: handle -> object id, 0 = no entry
  heap,                \* the AddrSpace objects constructed so far; the index is the identity
  spaces,              \* Context.spaces: name -> object id, 0 = no entry
  init_i,              \* the index of the loop of Context.__init__
  resolved,            \* history: handle -> the objects AddrSpace.from_c has returned for it
  stack,               \* the frames of the running translate calls, innermost last
  outcome,             \* "idle", "running", "returned" or "raised"
  result,              \* the TranslationResult of the last returned top-level call
  call,                \* the arguments of the last top-level translate call
  decodes,             \* history: the csleigh_translate calls of the last top-level call
  released,            \* history: per decode call, how often csleigh_freeResult ran on its result
  last_ret,            \* what the last call other than translate returned
  raw_error,           \* a csleigh_Error handed to the classifier
  classified,          \* what SleighErrorFactory.from_c made of raw_error
  op,                  \* a PcodeOp handed to the pretty printer
  op0,                 \* history: op as it was constructed
  fmt_first,           \* history: the outcome of the first fmt_op(op)
  fmt_last,            \* the outcome of the last fmt_op(op)
  fmt_calls,           \* history: the fmt_op calls so far, on op and on other operations
  varnodes,            \* the Varnode objects constructed so far; the index is the identity
  seen,                \* a set() of the user that Varnodes are added to: the ids of its members
  cmp                  \* the last a == b of two Varnodes, with its result and both hashes

regvars == <<cached_addr_spaces, heap, spaces, init_i, resolved>>
trvars == <<stack, outcome, result, call, decodes, released>>
errvars == <<raw_error, classified>>
fmtvars == <<op, op0, fmt_first, fmt_last, fmt_calls>>
vnvars == <<varnodes, seen, cmp>>
vars == <<cached_addr_spaces, heap, spaces, init_i, resolved, stack, outcome,
          result, call, decodes, released, last_ret, raw_error, classified,
          op, op0, fmt_first, fmt_last, fmt_calls, varnodes, seen, cmp>>

\* No Varnode has been constructed by the user of the Context.
NoVarnodes ==
  /\ varnodes = <<>>
  /\ seen = {}
  /\ cmp = None

(***************************************************************************)
(* Address-space registry.                                                 *)
(***************************************************************************)
\* AddrSpace.__init__ / from_c_uncached: a new object holding handle and name.
from_c_uncached(cobj) == [cobj |-> cobj, name |-> csleigh_AddrSpace_getName(cobj)]

\* Context.get_cached_addr_space: dict.get, 0 standing for None.
get_cached_addr_space(cache, cobj) == cache[cobj]

\* Context.set_cached_addr_space.
set_cached_addr_space(cache, cobj, pobj) == [cache EXCEPT ![cobj] = pobj]

\* from_c that constructs the object but never stores it in the cache.
AddrSpace_from_c_nostore(reg, cobj) ==
  LET obj == get_cached_addr_space(reg.cache, cobj) IN
  IF obj = 0
    THEN [obj |-> Len(reg.heap) + 1,
          reg |-> [cache |-> reg.cache,
                   heap |-> Append(reg.heap, from_c_uncached(cobj))]]
    ELSE [obj |-> obj, reg |-> reg]

\* AddrSpace.from_c on the registry reg = [cache, heap]: the object returned
\* and the registry afterwards.
AddrSpace_from_c(reg, cobj) ==
  LET obj == get_cached_addr_space(reg.cache, cobj) IN
  IF obj = 0
    THEN LET new == Len(reg.heap) + 1 IN
         [obj |-> new,
          reg |-> [cache |-> set_cached_addr_space(reg.cache, cobj, new),
                   heap |-> Append(reg.heap, from_c_uncached(cobj))]]
    ELSE [obj |-> obj, reg |-> reg]

Registry == [cache |-> cached_addr_spaces, heap |-> heap]

\* The registry after resolving the handles of hs in order.
RECURSIVE ResolveAll(_, _)
ResolveAll(reg, hs) ==
  IF hs = <<>> THEN reg
  ELSE ResolveAll(AddrSpace_from_c(reg, Head(hs)).reg, Tail(hs))

\* The objects returned while resolving the handles of hs in order.
RECURSIVE ResolvedObjs(_, _)
ResolvedObjs(reg, hs) ==
  IF hs = <<>> THEN <<>>
  ELSE LET r == AddrSpace_from_c(reg, Head(hs)) IN
       <<r.obj>> \o ResolvedObjs(r.reg, Tail(hs))

\* History of a run of resolutions: each handle gains the objects returned for it.
Note(res, hs, objs) ==
  [h \in Handles |->
     res[h] \cup {objs[k] : k \in {j \in 1..Len(hs) : hs[j] = h}}]

Constructed == init_i = NumSpaces

\* One iteration of the loop of Context.__init__.
InitSpace ==
  /\ init_i < NumSpaces
  /\ LET h == init_i + 1
         r == AddrSpace_from_c(Registry, h)
     IN /\ cached_addr_spaces' = r.reg.cache
        /\ heap' = r.reg.heap
        /\ spaces' = [spaces EXCEPT ![r.reg.heap[r.obj].name] = r.obj]
        /\ resolved' = Note(resolved, <<h>>, <<r.obj>>)
  /\ init_i' = init_i + 1
  /\ UNCHANGED <<trvars, last_ret>>
  /\ UNCHANGED <<errvars, fmtvars, vnvars>>

(***************************************************************************)
(* The decode oracle (csleigh_translate).  Over a window of n bytes at     *)
(* address base it reports instructions laid end to end from base, each    *)
(* wholly inside the window, then at most one error.  Each instruction     *)
(* carries a delay-slot byte length; the delay slot itself may lie beyond  *)
(* the window.  bad_op = k > 0 says that instruction k holds an operation  *)
(* whose opcode number is no member of OpCode.                             *)
(***************************************************************************)
RawErrorTypes == {"NOERROR", "UNIMPL", "BADDATA", "OTHER"}

RECURSIVE RawInsts(_, _, _, _)
RawInsts(pos, n, base, cnt) ==
  {<<>>} \cup
  (IF cnt = 0 THEN {}
   ELSE UNION {
     { <<[address |-> [space |-> CodeSpace, offset |-> base + pos],
          length |-> l, length_delay |-> d]>> \o rest :
         rest \in RawInsts(pos + l, n, base, cnt - 1) } :
       l \in {x \in 1..MaxInstLen : pos + x <= n}, d \in 0..MaxDelay })

RECURSIVE SumLen(_)
SumLen(insts) == IF insts = <<>> THEN 0 ELSE Head(insts).length + SumLen(Tail(insts))

RawError(t, insts, base) ==
  [type |-> t,
   explain |-> IF t = "NOERROR" THEN "" ELSE "decode failed",
   unimpl |-> [address |-> [space |-> CodeSpace, offset |-> base + SumLen(insts)],
               instruction_length |-> IF t = "UNIMPL" THEN 1 ELSE 0]]

csleigh_translate(n, base, max_inst) ==
  LET cnt == IF max_inst > 0 /\ max_inst < MaxInsts THEN max_inst ELSE MaxInsts
      all == { [instructions |-> insts, error |-> RawError(t, insts, base),
                bad_op |-> b] :
                 insts \in RawInsts(0, n, base, cnt),
                 t \in RawErrorTypes, b \in 0..MaxInsts }
  IN { r \in all : r.bad_op <= Len(r.instructions) }

(***************************************************************************)
(* Error classifier.                                                       *)
(***************************************************************************)
Raise == [raised |-> TRUE]

\* The members of the enumeration SleighErrorType.
SleighErrorType == {"NOERROR", "UNIMPL", "BADDATA"}

\* Address.from_c on registry reg: the Address and the registry afterwards.
Address_from_c(reg, cobj) ==
  LET r == AddrSpace_from_c(reg, cobj.space) IN
  [val |-> [space |-> r.obj, offset |-> cobj.offset], reg |-> r.reg]

\* UnimplError.from_c.
UnimplError_from_c(reg, cobj) ==
  IF cobj.type # "UNIMPL" THEN Raise
  ELSE [raised |-> FALSE,
        val |-> [class |-> "UnimplError",
                 explain |-> cobj.explain,
                 address |-> Address_from_c(reg, cobj.unimpl.address).val,
                 instruction_length |-> cobj.unimpl.instruction_length],
        reg |-> Address_from_c(reg, cobj.unimpl.address).reg]

\* BadDataError.from_c.
BadDataError_from_c(reg, cobj) ==
  IF cobj.type # "BADDATA" THEN Raise
  ELSE [raised |-> FALSE,
        val |-> [class |-> "BadDataError",
                 explain |-> cobj.explain,
                 address |-> Address_from_c(reg, cobj.unimpl.address).val],
        reg |-> Address_from_c(reg, cobj.unimpl.address).reg]

\* SleighErrorFactory.from_c that answers None for every tag it has no class for.
SleighErrorFactory_from_c_lenient(reg, cobj) ==
  IF cobj.type = "UNIMPL" THEN UnimplError_from_c(reg, cobj)
  ELSE IF cobj.type = "BADDATA" THEN BadDataError_from_c(reg, cobj)
  ELSE [raised |-> FALSE, val |-> None, reg |-> reg]

\* SleighErrorFactory.from_c: SleighErrorType(cobj.type) raises ValueError for a
\* number that is no member; the dictionary lookup raises KeyError otherwise.
SleighErrorFactory_from_c(reg, cobj) ==
  IF cobj.type \notin SleighErrorType THEN Raise
  ELSE IF cobj.type = "NOERROR" THEN [raised |-> FALSE, val |-> None, reg |-> reg]
  ELSE IF cobj.type = "UNIMPL" THEN UnimplError_from_c(reg, cobj)
  ELSE IF cobj.type = "BADDATA" THEN BadDataError_from_c(reg, cobj)
  ELSE Raise

(***************************************************************************)
(* Copying a raw result into owned objects.                                *)
(***************************************************************************)
\* Translation.__init__ after Translation.from_c; ds_decode is history: the
\* number of the decode call whose instruction list was assigned to
\* delayslot_instructions, 0 while none was.
Translation(addr, cobj) ==
  [address |-> addr, length |-> cobj.length, length_delay |-> cobj.length_delay,
   delayslot_instructions |-> <<>>, ds_decode |-> 0]

\* The Translations of the raw instructions cinsts, in order.
RECURSIVE Translations(_, _)
Translations(reg, cinsts) ==
  IF cinsts = <<>> THEN <<>>
  ELSE LET a == Address_from_c(reg, Head(cinsts).address) IN
       <<Translation(a.val, Head(cinsts))>> \o Translations(a.reg, Tail(cinsts))

\* The space handles resolved while copying the raw instructions cinsts.
AddressHandles(cinsts) == [k \in 1..Len(cinsts) |-> cinsts[k].address.space]

\* TranslationResult.from_c: the instructions are copied first (OpCode(cobj.opcode)
\* raises ValueError at instruction bad_op), then the error is classified.
\* handles lists the spaces resolved up to the return or the exception.
TranslationResult_from_c(reg, cobj) ==
  IF cobj.bad_op > 0
    THEN [raised |-> TRUE,
          handles |-> AddressHandles(SubSeq(cobj.instructions, 1, cobj.bad_op))]
  ELSE LET hs == AddressHandles(cobj.instructions)
           e == SleighErrorFactory_from_c(ResolveAll(reg, hs), cobj.error)
       IN IF e.raised
            THEN [raised |-> TRUE, handles |-> hs]
            ELSE [raised |-> FALSE,
                  handles |-> IF e.val = None THEN hs
                              ELSE Append(hs, cobj.error.unimpl.address.space),
                  val |-> [instructions |-> Translations(reg, cobj.instructions),
                           error |-> e.val]]

(***************************************************************************)
(* Context.translate.                                                      *)
(***************************************************************************)
Min(a, b) == IF a < b THEN a ELSE b

\* max_bytes as line 178 clamps it.
ClampMaxBytes(len, max_bytes) == IF max_bytes > 0 THEN Min(len, max_bytes) ELSE len

\* The buffer offset of inst itself: the instruction's length is left out.
buf_off_nolength(inst, base) == inst.address.offset - base

\* Line 185: the buffer offset of the byte after inst.
buf_off(inst, base) == inst.address.offset + inst.length - base

\* The delay slots are expanded whether or not the decode reported an error.
expands_always(res) == TRUE

\* Line 182: whether the delay slots of res are expanded.
expands(res) == res.error = None

\* The whole buffer is handed on, not the slice that starts at off.
SliceLen_whole(len, off) == len

\* len(code[off:]) for off >= 0.
SliceLen(len, off) == IF off < len THEN len - off ELSE 0

Top == stack[Len(stack)]

\* The body of translate up to line 181 on the buffer of code_len bytes that
\* starts at byte code_off of the top-level buffer: one decode, the copy, the
\* release.  An exception of the copy leaves through every caller: no frame
\* of translate catches it, and line 181 is not reached.
Enter(stk, log, rel, code_off, code_len, base, max_inst, max_bytes, bbt, bbnl) ==
  LET mb == ClampMaxBytes(code_len, max_bytes) IN
  \E raw \in csleigh_translate(mb, base, max_inst) :
    LET cp == TranslationResult_from_c(Registry, raw)
        reg2 == ResolveAll(Registry, cp.handles)
        d == [lo |-> code_off, code_len |-> code_len, max_bytes |-> max_bytes,
              length |-> mb, base |-> base, max_inst |-> max_inst,
              bb_terminating |-> bbt, bb_nonlinear_terminating |-> bbnl,
              reported |-> raw.instructions, error_type |-> raw.error.type]
    IN /\ decodes' = Append(log, d)
       /\ cached_addr_spaces' = reg2.cache
       /\ heap' = reg2.heap
       /\ resolved' = Note(resolved, cp.handles, ResolvedObjs(Registry, cp.handles))
       /\ IF cp.raised
            THEN /\ stack' = <<>>
                 /\ outcome' = "raised"
                 /\ released' = Append(rel, 0)
            ELSE /\ stack' = Append(stk, [code_off |-> code_off, code_len |-> code_len,
                                          base |-> base, max_bytes |-> mb,
                                          decode |-> Len(log) + 1,
                                          res |-> cp.val, i |-> 1])
                 /\ outcome' = "running"
                 /\ released' = Append(rel, 1)

Bases == {16}

\* A call of translate by the user of the Context.
Translate(len, base, max_inst, max_bytes, bbt, bbnl) ==
  /\ Constructed
  /\ outcome = "idle"
  /\ call' = [len |-> len, base |-> base, max_inst |-> max_inst,
              max_bytes |-> max_bytes]
  /\ result' = None
  /\ last_ret' = None
  /\ Enter(<<>>, <<>>, <<>>, 0, len, base, max_inst, max_bytes, bbt, bbnl)
  /\ UNCHANGED <<spaces, init_i>>
  /\ UNCHANGED <<errvars, fmtvars, vnvars>>

\* Lines 183-184 for an instruction without delay slot.
NextInst ==
  /\ outcome = "running"
  /\ expands(Top.res)
  /\ Top.i <= Len(Top.res.instructions)
  /\ Top.res.instructions[Top.i].length_delay = 0
  /\ stack' = [stack EXCEPT ![Len(stack)].i = @ + 1]
  /\ UNCHANGED <<regvars, outcome, result, call, decodes, released, last_ret>>
  /\ UNCHANGED <<errvars, fmtvars, vnvars>>

\* Lines 185-186: the recursive call for the delay slot of instruction i.
DelaySlot ==
  /\ outcome = "running"
  /\ expands(Top.res)
  /\ Top.i <= Len(Top.res.instructions)
  /\ Top.res.instructions[Top.i].length_delay # 0
  /\ LET inst == Top.res.instructions[Top.i]
         off == buf_off(inst, Top.base)
     IN Enter(stack, decodes, released,
              Top.code_off + Min(off, Top.code_len), SliceLen(Top.code_len, off),
              Top.base + off, 0, inst.length_delay, FALSE, FALSE)
  /\ UNCHANGED <<spaces, init_i, result, call, last_ret>>
  /\ UNCHANGED <<errvars, fmtvars, vnvars>>

Finished(f) == ~expands(f.res) \/ f.i > Len(f.res.instructions)

\* Line 189 of the outermost call.
Return ==
  /\ outcome = "running"
  /\ Len(stack) = 1
  /\ Finished(Top)
  /\ stack' = <<>>
  /\ outcome' = "returned"
  /\ result' = Top.res
  /\ UNCHANGED <<regvars, call, decodes, released, last_ret>>
  /\ UNCHANGED <<errvars, fmtvars, vnvars>>

\* Line 189 of a delay-slot call, then lines 187-188 of its caller.
ReturnDelaySlot ==
  /\ outcome = "running"
  /\ Len(stack) > 1
  /\ Finished(Top)
  /\ LET binst == Top.res
         n == Len(stack) - 1
         p == stack[n]
     IN IF binst.error # None
          THEN /\ stack' = <<>>
               /\ outcome' = "raised"
          ELSE /\ stack' = [SubSeq(stack, 1, n) EXCEPT
                              ![n].res.instructions[p.i].delayslot_instructions =
                                 binst.instructions,
                              ![n].res.instructions[p.i].ds_decode = Top.decode,
                              ![n].i = @ + 1]
               /\ outcome' = "running"
  /\ UNCHANGED <<regvars, result, call, decodes, released, last_ret>>
  /\ UNCHANGED <<errvars, fmtvars, vnvars>>

\* The caller is done with the outcome of its call and drops it.
Forget ==
  /\ outcome \in {"returned", "raised"}
  /\ outcome' = "idle"
  /\ result' = None
  /\ call' = None
  /\ decodes' = <<>>
  /\ released' = <<>>
  /\ UNCHANGED <<regvars, stack, last_ret>>
  /\ UNCHANGED <<errvars, fmtvars, vnvars>>

(***************************************************************************)
(* The other calls of a Context that resolve address spaces.               *)
(***************************************************************************)
\* csleigh_Sleigh_getRegister: the registers of the language.
Registers ==
  [r0 |-> [space |-> HandleOf("register"), offset |-> 0, size |-> 4],
   r1 |-> [space |-> HandleOf("register"), offset |-> 4, size |-> 4]]

\* Varnode.from_c.
Varnode_from_c(reg, cobj) ==
  LET r == AddrSpace_from_c(reg, cobj.space) IN
  [val |-> [space |-> r.obj, offset |-> cobj.offset, size |-> cobj.size],
   reg |-> r.reg]

\* Context.get_register.
GetRegister(name) ==
  /\ Constructed
  /\ outcome = "idle"
  /\ LET cres == Registers[name]
         r == Varnode_from_c(Registry, cres)
     IN /\ last_ret' = [class |-> "Varnode", val |-> r.val]
        /\ cached_addr_spaces' = r.reg.cache
        /\ heap' = r.reg.heap
        /\ resolved' = Note(resolved, <<cres.space>>, <<r.val.space>>)
  /\ UNCHANGED <<spaces, init_i, trvars>>
  /\ UNCHANGED <<errvars, fmtvars, vnvars>>

\* csleigh_Addr_getSpaceFromConst: the offset read as a space handle.
csleigh_Addr_getSpaceFromConst(addr) == addr.offset

\* Address.get_space_from_const, as fmt_LOAD and fmt_STORE call it on the
\* space operand: a constant whose offset is the handle h.
GetSpaceFromConst(h) ==
  /\ Constructed
  /\ outcome = "idle"
  /\ LET r == AddrSpace_from_c(Registry, csleigh_Addr_getSpaceFromConst(
                  [space |-> cached_addr_spaces[HandleOf("const")], offset |-> h]))
     IN /\ last_ret' = [class |-> "AddrSpace", obj |-> r.obj]
        /\ cached_addr_spaces' = r.reg.cache
        /\ heap' = r.reg.heap
        /\ resolved' = Note(resolved, <<h>>, <<r.obj>>)
  /\ UNCHANGED <<spaces, init_i, trvars>>
  /\ UNCHANGED <<errvars, fmtvars, vnvars>>

Init ==
  /\ cached_addr_spaces = [h \in Handles |-> 0]
  /\ heap = <<>>
  /\ spaces = [n \in {SpaceNames[h] : h \in Handles} |-> 0]
  /\ init_i = 0
  /\ resolved = [h \in Handles |-> {}]
  /\ stack = <<>>
  /\ outcome = "idle"
  /\ result = None
  /\ call = None
  /\ decodes = <<>>
  /\ released = <<>>
  /\ last_ret = None
  /\ raw_error = None
  /\ classified = None
  /\ op = None
  /\ op0 = None
  /\ fmt_first = None
  /\ fmt_last = None
  /\ fmt_calls = None
  /\ NoVarnodes

Next ==
  \/ InitSpace
  \/ \E len \in 1..MaxBuf, base \in Bases, max_inst \in 0..1, max_bytes \in 0..MaxBuf,
        bb \in BOOLEAN :
       Translate(len, base, max_inst, max_bytes, bb, bb)
  \/ NextInst
  \/ DelaySlot
  \/ Return
  \/ ReturnDelaySlot
  \/ Forget
  \/ \E name \in DOMAIN Registers : GetRegister(name)
  \/ \E h \in Handles : GetSpaceFromConst(h)

Spec == Init /\ [][Next]_vars

(***************************************************************************)
(* Properties of the registry and of translate, checked under Spec.        *)
(***************************************************************************)
\* The instructions of the Translations ts are those of the raw list cs.
SameInsts(ts, cs) ==
  /\ Len(ts) = Len(cs)
  /\ \A k \in 1..Len(ts) :
       /\ ts[k].address.offset = cs[k].address.offset
       /\ ts[k].length = cs[k].length
       /\ ts[k].length_delay = cs[k].length_delay

\* C1: within the Context every resolution of a handle by AddrSpace.from_c
\* returned one and the same object, the one the cache holds for the handle;
\* a handle never resolved has no entry, and an entry is never replaced or
\* removed (resolved only grows).
C1_SpaceIdentity ==
  \A h \in Handles :
    /\ resolved[h] = IF cached_addr_spaces[h] = 0 THEN {} ELSE {cached_addr_spaces[h]}
    /\ cached_addr_spaces[h] # 0 =>
         /\ cached_addr_spaces[h] \in 1..Len(heap)
         /\ heap[cached_addr_spaces[h]].cobj = h

\* C1 witness: translate resolved the code space again, after the constructor
\* had cached it, and its instruction carries the cached object.
C1_Witness ==
  /\ outcome = "returned"
  /\ result.instructions # <<>>
  /\ result.instructions[1].address.space = cached_addr_spaces[CodeSpace]

\* every delay-slot list of insts, at any depth, is the list a follow-up
\* decode reported for the bytes right after its instruction.
RECURSIVE DelaySlotsFromDecode(_)
DelaySlotsFromDecode(insts) ==
  \A k \in 1..Len(insts) :
    LET t == insts[k]
        after == t.address.offset + t.length - call.base
    IN IF t.length_delay > 0
         THEN /\ t.ds_decode \in 1..Len(decodes)
              /\ decodes[t.ds_decode].lo = after
              /\ decodes[t.ds_decode].base = t.address.offset + t.length
              /\ decodes[t.ds_decode].length = Min(t.length_delay, call.len - after)
              /\ decodes[t.ds_decode].error_type = "NOERROR"
              /\ SameInsts(t.delayslot_instructions, decodes[t.ds_decode].reported)
              /\ DelaySlotsFromDecode(t.delayslot_instructions)
         ELSE /\ t.delayslot_instructions = <<>>
              /\ t.ds_decode = 0

\* C2 (amended): in a result without error, every Translation with a delay-slot
\* length > 0 holds the instruction list (possibly empty) of a follow-up decode
\* that starts right after the instruction and spans min(delay-slot length,
\* bytes left in the buffer) bytes, and one with delay-slot length 0 holds the
\* empty list; in a result with an error every delay-slot list is empty.
C2_DelaySlotsPopulated ==
  outcome = "returned" =>
    IF result.error = None
      THEN DelaySlotsFromDecode(result.instructions)
      ELSE \A k \in 1..Len(result.instructions) :
             /\ result.instructions[k].delayslot_instructions = <<>>
             /\ result.instructions[k].ds_decode = 0

\* C2 witness: a returned result without error whose first instruction has a
\* delay slot and a populated delay-slot list.
C2_Witness ==
  /\ outcome = "returned"
  /\ result.error = None
  /\ result.instructions # <<>>
  /\ result.instructions[1].length_delay > 0
  /\ result.instructions[1].delayslot_instructions # <<>>

\* C2 as claimed: in every returned result, with or without an error, a
\* delay-slot length > 0 means the list comes from a follow-up decode of exactly
\* that many bytes right after the instruction, and 0 means the list is empty.
C2_Original ==
  outcome = "returned" =>
    \A k \in 1..Len(result.instructions) :
      LET t == result.instructions[k] IN
      IF t.length_delay > 0
        THEN /\ t.ds_decode \in 1..Len(decodes)
             /\ decodes[t.ds_decode].lo = t.address.offset + t.length - call.base
             /\ decodes[t.ds_decode].length = t.length_delay
        ELSE t.delayslot_instructions = <<>>

\* C3 as claimed: every nested translate call runs with a strictly smaller byte
\* budget (clamped max_bytes) than the call that made it.
C3_BudgetDecreases ==
  \A k \in 2..Len(stack) : stack[k].max_bytes < stack[k - 1].max_bytes

\* The first bytes of the buffer the top-level call may consume.
TopWindow ==
  IF call.max_bytes > 0 THEN Min(call.len, call.max_bytes) ELSE call.len

\* C4 as claimed: no decode of a translate call, delay-slot sub-decodes
\* included, is handed bytes beyond the first min(len(buf), K) when K > 0,
\* or beyond len(buf) when K = 0.
C4_MaxBytesClamp ==
  \A k \in 1..Len(decodes) : decodes[k].lo + decodes[k].length <= TopWindow

\* C5: a decode that reported an error is the last decode of its translate
\* call, and a result returned with an error holds exactly the instructions
\* that decode reported, in order.
C5_ErrorTruncation ==
  /\ \A k \in 1..Len(decodes) :
       decodes[k].error_type \in {"UNIMPL", "BADDATA"} => k = Len(decodes)
  /\ (outcome = "returned" /\ result.error # None) =>
       /\ Len(decodes) = 1
       /\ SameInsts(result.instructions, decodes[1].reported)

\* C5 witness: a result returned with an error after a decoded instruction that
\* has a delay slot.
C5_Witness ==
  /\ outcome = "returned"
  /\ result.error # None
  /\ result.instructions # <<>>
  /\ result.instructions[1].length_delay > 0

\* C7 as claimed: when translate is left, by return or by exception, every raw
\* result its decodes returned has been released exactly once.
C7_ReleasedOnce ==
  outcome \in {"returned", "raised"} =>
    \A k \in 1..Len(decodes) : released[k] = 1

(***************************************************************************)
(* The error classifier on its own: SpecErr hands SleighErrorFactory.from_c *)
(* raw errors of every type, in a Context whose constructor has run.        *)
(***************************************************************************)
\* The registry when Context.__init__ returns.
ConstructedRegistry ==
  ResolveAll([cache |-> [h \in Handles |-> 0], heap |-> <<>>],
             [k \in 1..NumSpaces |-> k])

InitConstructed ==
  /\ cached_addr_spaces = ConstructedRegistry.cache
  /\ heap = ConstructedRegistry.heap
  /\ spaces = [n \in {SpaceNames[h] : h \in Handles} |->
                 ConstructedRegistry.cache[HandleOf(n)]]
  /\ init_i = NumSpaces
  /\ resolved = [h \in Handles |-> {ConstructedRegistry.cache[h]}]
  /\ stack = <<>>
  /\ outcome = "idle"
  /\ result = None
  /\ call = None
  /\ decodes = <<>>
  /\ released = <<>>
  /\ last_ret = None

\* The raw errors the oracle may hand over.
RawErrors ==
  [type : RawErrorTypes,
   explain : {"", "decode failed"},
   unimpl : [address : [space : Handles, offset : {16 + k : k \in 0..MaxBuf}],
             instruction_length : 0..MaxInstLen]]

\* SleighErrorFactory.from_c(ctx, raw_error).
Classify ==
  /\ raw_error # None
  /\ classified = None
  /\ LET r == SleighErrorFactory_from_c(Registry, raw_error) IN
     IF r.raised
       THEN /\ classified' = Raise
            /\ UNCHANGED <<cached_addr_spaces, heap, resolved>>
       ELSE /\ classified' = [raised |-> FALSE, val |-> r.val]
            /\ cached_addr_spaces' = r.reg.cache
            /\ heap' = r.reg.heap
            /\ resolved' =
                 IF r.val = None THEN resolved
                 ELSE Note(resolved, <<raw_error.unimpl.address.space>>,
                           <<r.val.address.space>>)
  /\ UNCHANGED <<spaces, init_i, trvars, last_ret, raw_error, fmtvars, vnvars>>

\* The oracle hands over the next raw error.
NextError ==
  /\ classified # None
  /\ raw_error' \in RawErrors
  /\ classified' = None
  /\ UNCHANGED <<regvars, trvars, last_ret, fmtvars, vnvars>>

InitErr ==
  /\ InitConstructed
  /\ raw_error \in RawErrors
  /\ classified = None
  /\ op = None
  /\ op0 = None
  /\ fmt_first = None
  /\ fmt_last = None
  /\ fmt_calls = None
  /\ NoVarnodes

NextErr == Classify \/ NextError

SpecErr == InitErr /\ [][NextErr]_vars

\* C6: NOERROR classifies to None; UNIMPL to an UnimplError with the explain
\* text, the address and the instruction length of the raw error; BADDATA to a
\* BadDataError with the explain text and the address and no length field; any
\* other type makes the classification raise.
C6_Classification ==
  classified # None =>
    LET a == [space |-> cached_addr_spaces[raw_error.unimpl.address.space],
              offset |-> raw_error.unimpl.address.offset]
    IN CASE raw_error.type = "NOERROR" ->
              classified = [raised |-> FALSE, val |-> None]
         [] raw_error.type = "UNIMPL" ->
              classified =
                [raised |-> FALSE,
                 val |-> [class |-> "UnimplError", explain |-> raw_error.explain,
                          address |-> a,
                          instruction_length |-> raw_error.unimpl.instruction_length]]
         [] raw_error.type = "BADDATA" ->
              classified =
                [raised |-> FALSE,
                 val |-> [class |-> "BadDataError", explain |-> raw_error.explain,
                          address |-> a]]
         [] OTHER -> classified = Raise

\* C6 witness: a raw error of a type outside the enumeration was classified.
C6_Witness ==
  /\ classified # None
  /\ raw_error.type \notin SleighErrorType

(***************************************************************************)
(* The pretty printer.  Strings are TLA+ strings, joined with \o.          *)
(***************************************************************************)
HexDigits == <<"0", "1", "2", "3", "4", "5", "6", "7", "8", "9",
               "a", "b", "c", "d", "e", "f">>

RECURSIVE HexStr(_)
HexStr(n) ==
  IF n < 16 THEN HexDigits[n + 1]
  ELSE HexStr(n \div 16) \o HexDigits[(n % 16) + 1]

\* '%#x' % n for n >= 0.
Hex(n) == "0x" \o HexStr(n)

RECURSIVE Dec(_)
\* '%d' % n for n >= 0.
Dec(n) ==
  IF n < 10 THEN HexDigits[n + 1]
  ELSE Dec(n \div 10) \o HexDigits[(n % 10) + 1]

\* Varnode.__str__.
Varnode_str(reg, vn) ==
  reg.heap[vn.space].name \o "[" \o Hex(vn.offset) \o ":" \o Dec(vn.size) \o "]"

\* csleigh_Sleigh_getRegisterName: the name of the register at (space, offset,
\* size), the empty string when the language names none there.
csleigh_Sleigh_getRegisterName(space, offset, size) ==
  LET v == [space |-> space, offset |-> offset, size |-> size] IN
  IF \E n \in DOMAIN Registers : Registers[n] = v
    THEN CHOOSE n \in DOMAIN Registers : Registers[n] = v
    ELSE ""

\* Varnode.get_register_name / Context.get_register_name.
get_register_name(reg, vn) ==
  csleigh_Sleigh_getRegisterName(reg.heap[vn.space].cobj, vn.offset, vn.size)

\* OpFormat.fmt_vn.
fmt_vn(reg, vn) ==
  IF reg.heap[vn.space].name = "const" THEN Hex(vn.offset)
  ELSE IF reg.heap[vn.space].name = "register" /\ get_register_name(reg, vn) # ""
    THEN get_register_name(reg, vn)
  ELSE Varnode_str(reg, vn)

\* ", ".join(map(fmt_vn, vns)).
RECURSIVE JoinFmt(_, _)
JoinFmt(reg, vns) ==
  IF vns = <<>> THEN ""
  ELSE IF Len(vns) = 1 THEN fmt_vn(reg, vns[1])
  ELSE fmt_vn(reg, vns[1]) \o ", " \o JoinFmt(reg, Tail(vns))

\* What a formatter hands back: the string, and the operation and the registry
\* as the call leaves them.
FmtOk(str, o, reg) == [raised |-> FALSE, val |-> str, op |-> o, reg |-> reg]

\* An exception out of a formatter (IndexError on a missing input).
FmtRaise(o, reg) == [raised |-> TRUE, val |-> "", op |-> o, reg |-> reg]

\* OpFormat.fmt, the fallback.
OpFormat_fmt(reg, o) == FmtOk(o.opcode \o " " \o JoinFmt(reg, o.inputs), o, reg)

\* OpFormatUnary.fmt.
OpFormatUnary_fmt(reg, operator, o) ==
  IF Len(o.inputs) < 1 THEN FmtRaise(o, reg)
  ELSE FmtOk(operator \o fmt_vn(reg, o.inputs[1]), o, reg)

\* OpFormatBinary.fmt.
OpFormatBinary_fmt(reg, operator, o) ==
  IF Len(o.inputs) < 2 THEN FmtRaise(o, reg)
  ELSE FmtOk(fmt_vn(reg, o.inputs[1]) \o " " \o operator \o " "
               \o fmt_vn(reg, o.inputs[2]), o, reg)

\* OpFormatFunc.fmt.
OpFormatFunc_fmt(reg, operator, o) ==
  FmtOk(operator \o "(" \o JoinFmt(reg, o.inputs) \o ")", o, reg)

fmt_BRANCH(reg, o) ==
  IF Len(o.inputs) < 1 THEN FmtRaise(o, reg)
  ELSE FmtOk("goto " \o fmt_vn(reg, o.inputs[1]), o, reg)

fmt_BRANCHIND(reg, o) ==
  IF Len(o.inputs) < 1 THEN FmtRaise(o, reg)
  ELSE FmtOk("goto [" \o fmt_vn(reg, o.inputs[1]) \o "]", o, reg)

fmt_CALL(reg, o) ==
  IF Len(o.inputs) < 1 THEN FmtRaise(o, reg)
  ELSE FmtOk("call " \o fmt_vn(reg, o.inputs[1]), o, reg)

fmt_CALLIND(reg, o) ==
  IF Len(o.inputs) < 1 THEN FmtRaise(o, reg)
  ELSE FmtOk("call [" \o fmt_vn(reg, o.inputs[1]) \o "]", o, reg)

\* fmt_CBRANCH with condition and target exchanged.
fmt_CBRANCH_swapped(reg, o) ==
  IF Len(o.inputs) < 2 THEN FmtRaise(o, reg)
  ELSE FmtOk("if (" \o fmt_vn(reg, o.inputs[1]) \o ") goto "
               \o fmt_vn(reg, o.inputs[2]), o, reg)

fmt_CBRANCH(reg, o) ==
  IF Len(o.inputs) < 2 THEN FmtRaise(o, reg)
  ELSE FmtOk("if (" \o fmt_vn(reg, o.inputs[2]) \o ") goto "
               \o fmt_vn(reg, o.inputs[1]), o, reg)

\* Varnode.get_space_from_const: the offset read as a space handle and
\* resolved through the registry.
get_space_from_const(reg, vn) ==
  AddrSpace_from_c(reg, csleigh_Addr_getSpaceFromConst(
                          [space |-> vn.space, offset |-> vn.offset]))

\* fmt_LOAD that takes the space operand off the input list (inputs.pop(0)).
fmt_LOAD_pop(reg, o) ==
  IF Len(o.inputs) < 2 THEN FmtRaise(o, reg)
  ELSE LET sp == get_space_from_const(reg, o.inputs[1]) IN
       FmtOk("*[" \o sp.reg.heap[sp.obj].name \o "]" \o fmt_vn(sp.reg, o.inputs[2]),
             [o EXCEPT !.inputs = Tail(@)], sp.reg)

fmt_LOAD(reg, o) ==
  IF Len(o.inputs) < 2 THEN FmtRaise(o, reg)
  ELSE LET sp == get_space_from_const(reg, o.inputs[1]) IN
       FmtOk("*[" \o sp.reg.heap[sp.obj].name \o "]" \o fmt_vn(sp.reg, o.inputs[2]),
             o, sp.reg)

fmt_RETURN(reg, o) ==
  IF Len(o.inputs) < 1 THEN FmtRaise(o, reg)
  ELSE FmtOk("return " \o fmt_vn(reg, o.inputs[1]), o, reg)

\* Line 511: the stored value is interpolated as it is, by Varnode.__str__.
fmt_STORE(reg, o) ==
  IF Len(o.inputs) < 3 THEN FmtRaise(o, reg)
  ELSE LET sp == get_space_from_const(reg, o.inputs[1]) IN
       FmtOk("*[" \o sp.reg.heap[sp.obj].name \o "]" \o fmt_vn(sp.reg, o.inputs[2])
               \o " = " \o Varnode_str(sp.reg, o.inputs[3]), o, sp.reg)

\* OpFormatSpecial.fmt: the dictionary of lines 514-523.
OpFormatSpecial_fmt(reg, o) ==
  CASE o.opcode = "BRANCH" -> fmt_BRANCH(reg, o)
    [] o.opcode = "BRANCHIND" -> fmt_BRANCHIND(reg, o)
    [] o.opcode = "CALL" -> fmt_CALL(reg, o)
    [] o.opcode = "CALLIND" -> fmt_CALLIND(reg, o)
    [] o.opcode = "CBRANCH" -> fmt_CBRANCH(reg, o)
    [] o.opcode = "LOAD" -> fmt_LOAD(reg, o)
    [] o.opcode = "RETURN" -> fmt_RETURN(reg, o)
    [] o.opcode = "STORE" -> fmt_STORE(reg, o)
    [] OTHER -> FmtRaise(o, reg)

\* PcodePrettyPrinter.OP_FORMATS, by formatter class.
UnaryOperators ==
  ("BOOL_NEGATE" :> "!") @@ ("COPY" :> "") @@ ("FLOAT_NEG" :> "f- ") @@
  ("INT_2COMP" :> "-") @@ ("INT_NEGATE" :> "~")

BinaryOperators ==
  ("BOOL_AND" :> "&&") @@ ("BOOL_OR" :> "||") @@ ("BOOL_XOR" :> "^^") @@
  ("FLOAT_ADD" :> "f+") @@ ("FLOAT_DIV" :> "f/") @@ ("FLOAT_EQUAL" :> "f==") @@
  ("FLOAT_LESS" :> "f<") @@ ("FLOAT_LESSEQUAL" :> "f<=") @@
  ("FLOAT_MULT" :> "f*") @@ ("FLOAT_NOTEQUAL" :> "f!=") @@
  ("FLOAT_SUB" :> "f-") @@ ("INT_ADD" :> "+") @@ ("INT_AND" :> "&") @@
  ("INT_DIV" :> "/") @@ ("INT_EQUAL" :> "==") @@ ("INT_LEFT" :> "<<") @@
  ("INT_LESS" :> "<") @@ ("INT_LESSEQUAL" :> "<=") @@ ("INT_MULT" :> "*") @@
  ("INT_NOTEQUAL" :> "!=") @@ ("INT_OR" :> "|") @@ ("INT_REM" :> "%") @@
  ("INT_RIGHT" :> ">>") @@ ("INT_SDIV" :> "s/") @@ ("INT_SLESS" :> "s<") @@
  ("INT_SLESSEQUAL" :> "s<=") @@ ("INT_SREM" :> "s%") @@
  ("INT_SRIGHT" :> "s>>") @@ ("INT_SUB" :> "-") @@ ("INT_XOR" :> "^")

FuncOperators ==
  ("CPOOLREF" :> "cpool") @@ ("FLOAT_ABS" :> "abs") @@
  ("FLOAT_CEIL" :> "ceil") @@ ("FLOAT_FLOAT2FLOAT" :> "float2float") @@
  ("FLOAT_FLOOR" :> "floor") @@ ("FLOAT_INT2FLOAT" :> "int2float") @@
  ("FLOAT_NAN" :> "nan") @@ ("FLOAT_ROUND" :> "round") @@
  ("FLOAT_SQRT" :> "sqrt") @@ ("FLOAT_TRUNC" :> "trunc") @@
  ("INT_CARRY" :> "carry") @@ ("INT_SBORROW" :> "sborrow") @@
  ("INT_SCARRY" :> "scarry") @@ ("INT_SEXT" :> "sext") @@
  ("INT_ZEXT" :> "zext") @@ ("NEW" :> "newobject") @@ ("POPCOUNT" :> "popcount")

SpecialOpcodes ==
  {"BRANCH", "BRANCHIND", "CALL", "CALLIND", "CBRANCH", "LOAD", "RETURN", "STORE"}

\* Members of OpCode that OP_FORMATS has no entry for.
UnregisteredOpcodes == {"CALLOTHER", "SUBPIECE"}

\* OP_FORMATS.get(opcode, DEFAULT_OP_FORMAT).
OP_FORMATS_get(opcode) ==
  IF opcode \in DOMAIN UnaryOperators
    THEN [class |-> "OpFormatUnary", operator |-> UnaryOperators[opcode]]
  ELSE IF opcode \in DOMAIN BinaryOperators
    THEN [class |-> "OpFormatBinary", operator |-> BinaryOperators[opcode]]
  ELSE IF opcode \in DOMAIN FuncOperators
    THEN [class |-> "OpFormatFunc", operator |-> FuncOperators[opcode]]
  ELSE IF opcode \in SpecialOpcodes
    THEN [class |-> "OpFormatSpecial", operator |-> ""]
  ELSE [class |-> "OpFormat", operator |-> ""]

\* fmt.fmt(op) by the class of fmt.
Format_fmt(reg, f, o) ==
  CASE f.class = "OpFormatUnary" -> OpFormatUnary_fmt(reg, f.operator, o)
    [] f.class = "OpFormatBinary" -> OpFormatBinary_fmt(reg, f.operator, o)
    [] f.class = "OpFormatFunc" -> OpFormatFunc_fmt(reg, f.operator, o)
    [] f.class = "OpFormatSpecial" -> OpFormatSpecial_fmt(reg, o)
    [] OTHER -> OpFormat_fmt(reg, o)

\* PcodePrettyPrinter.fmt_op.
fmt_op(reg, o) ==
  LET f == OP_FORMATS_get(o.opcode)
      pre == IF o.output # None THEN fmt_vn(reg, o.output) \o " = " ELSE ""
      r == Format_fmt(reg, f, o)
  IN IF r.raised THEN r ELSE FmtOk(pre \o r.val, r.op, r.reg)

(***************************************************************************)
(* SpecFmt: fmt_op on one PcodeOp of a constructed Context, any number of  *)
(* times, with fmt_op calls on other operations in between.                *)
(***************************************************************************)
\* The AddrSpace object of the constructed Context for the space called name.
SpaceObj(name) == ConstructedRegistry.cache[HandleOf(name)]

\* Operands: a constant whose offset is the handle of the ram space (what the
\* decoder emits as the space operand of LOAD and STORE), a named register, a
\* register location without a name, and a byte of ram.
FmtVarnodes ==
  { [space |-> SpaceObj("const"), offset |-> HandleOf("ram"), size |-> 4],
    [space |-> SpaceObj("register"), offset |-> Registers["r0"].offset,
     size |-> Registers["r0"].size],
    [space |-> SpaceObj("register"), offset |-> 2, size |-> 4],
    [space |-> SpaceObj("ram"), offset |-> 16, size |-> 1] }

FmtOutputs == {None, [space |-> SpaceObj("register"), offset |-> 4, size |-> 4]}

FmtOpcodes ==
  DOMAIN UnaryOperators \cup DOMAIN BinaryOperators \cup DOMAIN FuncOperators
    \cup SpecialOpcodes \cup UnregisteredOpcodes

FmtInputs == UNION { [1..n -> FmtVarnodes] : n \in 0..MaxInputs }

\* The space operand of a LOAD or STORE is a constant that encodes a space.
WellFormedOp(o) ==
  (o.opcode \in {"LOAD", "STORE"} /\ o.inputs # <<>>) =>
    /\ ConstructedRegistry.heap[o.inputs[1].space].name = "const"
    /\ o.inputs[1].offset \in Handles

PcodeOps ==
  { o \in [seq : {[pc |-> [space |-> SpaceObj("ram"), offset |-> 16],
                   uniq |-> 0, order |-> 0]},
           opcode : FmtOpcodes, output : FmtOutputs, inputs : FmtInputs] :
      WellFormedOp(o) }

\* Operations formatted between two fmt_op(op) calls.
OtherOps ==
  { o \in PcodeOps : /\ o.opcode \in {"LOAD", "INT_ADD"}
                     /\ Len(o.inputs) = 2
                     /\ o.output # None
                     /\ o.inputs[1] = o.inputs[2]
                     /\ ConstructedRegistry.heap[o.inputs[1].space].name = "const" }

FmtOutcome(r) == [raised |-> r.raised, val |-> r.val]

\* PcodePrettyPrinter.fmt_op(op).
FmtOp ==
  /\ fmt_calls.self + fmt_calls.other < MaxFmtCalls
  /\ LET r == fmt_op(Registry, op) IN
       /\ op' = r.op
       /\ cached_addr_spaces' = r.reg.cache
       /\ heap' = r.reg.heap
       /\ fmt_last' = FmtOutcome(r)
       /\ fmt_first' = IF fmt_first = None THEN FmtOutcome(r) ELSE fmt_first
  /\ fmt_calls' = [fmt_calls EXCEPT !.self = @ + 1]
  /\ UNCHANGED <<spaces, init_i, resolved, trvars, last_ret, errvars, op0, vnvars>>

\* PcodePrettyPrinter.fmt_op(o) for another operation o.
FmtOther(o) ==
  /\ fmt_calls.self + fmt_calls.other < MaxFmtCalls
  /\ LET r == fmt_op(Registry, o) IN
       /\ cached_addr_spaces' = r.reg.cache
       /\ heap' = r.reg.heap
  /\ fmt_calls' = [fmt_calls EXCEPT !.other = @ + 1]
  /\ UNCHANGED <<spaces, init_i, resolved, trvars, last_ret, errvars, op, op0,
                 fmt_first, fmt_last, vnvars>>

InitFmt ==
  /\ InitConstructed
  /\ raw_error = None
  /\ classified = None
  /\ op \in PcodeOps
  /\ op0 = op
  /\ fmt_first = None
  /\ fmt_last = None
  /\ fmt_calls = [self |-> 0, other |-> 0]
  /\ NoVarnodes

NextFmt == FmtOp \/ \E o \in OtherOps : FmtOther(o)

SpecFmt == InitFmt /\ [][NextFmt]_vars

(***************************************************************************)
(* Properties of the pretty printer, checked under SpecFmt.                *)
(***************************************************************************)
\* The inputs the form of an opcode reads.
InputsRead(opcode) ==
  IF opcode = "STORE" THEN 3
  ELSE IF opcode \in {"CBRANCH", "LOAD"} \cup DOMAIN BinaryOperators THEN 2
  ELSE IF opcode \in SpecialOpcodes \cup DOMAIN UnaryOperators THEN 1
  ELSE 0

\* The operand rule: a hexadecimal literal for a constant, the register name
\* for a register that has one, the generic space[offset:size] form otherwise.
OperandRule(vn) ==
  LET name == heap[vn.space].name
      generic == name \o "[" \o Hex(vn.offset) \o ":" \o Dec(vn.size) \o "]"
      regname == csleigh_Sleigh_getRegisterName(heap[vn.space].cobj, vn.offset, vn.size)
  IN IF name = "const" THEN Hex(vn.offset)
     ELSE IF name = "register" /\ regname # "" THEN regname
     ELSE generic

\* The generic form of an operand.
GenericForm(vn) ==
  heap[vn.space].name \o "[" \o Hex(vn.offset) \o ":" \o Dec(vn.size) \o "]"

RECURSIVE CommaList(_)
CommaList(strs) ==
  IF strs = <<>> THEN ""
  ELSE IF Len(strs) = 1 THEN strs[1]
  ELSE strs[1] \o ", " \o CommaList(Tail(strs))

\* The name of the space a LOAD/STORE space operand encodes.
EncodedSpace(vn) == heap[cached_addr_spaces[vn.offset]].name

\* The rendering the dispatch rules give o: the special form first, then the
\* registered unary, binary or function form, then the fallback, behind
\* 'output = ' exactly when o has an output.  unary_gap is what stands between
\* a unary operator and its operand; stored is the rendering of the value a
\* STORE stores.
Rendering(o, unary_gap, stored) ==
  LET in == [k \in 1..Len(o.inputs) |-> OperandRule(o.inputs[k])]
      c == o.opcode
      body ==
        CASE c = "BRANCH" -> "goto " \o in[1]
          [] c = "BRANCHIND" -> "goto [" \o in[1] \o "]"
          [] c = "CALL" -> "call " \o in[1]
          [] c = "CALLIND" -> "call [" \o in[1] \o "]"
          [] c = "CBRANCH" -> "if (" \o in[2] \o ") goto " \o in[1]
          [] c = "LOAD" -> "*[" \o EncodedSpace(o.inputs[1]) \o "]" \o in[2]
          [] c = "RETURN" -> "return " \o in[1]
          [] c = "STORE" ->
               "*[" \o EncodedSpace(o.inputs[1]) \o "]" \o in[2] \o " = " \o stored
          [] c \in DOMAIN UnaryOperators -> UnaryOperators[c] \o unary_gap \o in[1]
          [] c \in DOMAIN BinaryOperators ->
               in[1] \o " " \o BinaryOperators[c] \o " " \o in[2]
          [] c \in DOMAIN FuncOperators ->
               FuncOperators[c] \o "(" \o CommaList(in) \o ")"
          [] OTHER -> c \o " " \o CommaList(in)
  IN (IF o.output # None THEN OperandRule(o.output) \o " = " ELSE "") \o body

\* op has been formatted and carries the inputs its form reads.
Formatted == fmt_last # None /\ Len(op0.inputs) >= InputsRead(op0.opcode)

\* C8 (amended): fmt_op renders the special form for the eight special
\* opcodes, else the registered unary, binary or function form, else the
\* fallback, behind 'output = ' exactly when the operation has an output; the
\* unary form is the operator directly followed by the operand, with no space
\* between them.
C8_DispatchPriority ==
  Formatted =>
    /\ ~fmt_last.raised
    /\ \/ fmt_last.val = Rendering(op0, "", "")
       \/ /\ op0.opcode = "STORE"
          /\ fmt_last.val \in { Rendering(op0, "", OperandRule(op0.inputs[3])),
                                Rendering(op0, "", GenericForm(op0.inputs[3])) }

\* C8 witness: a conditional branch with an output has been formatted.
C8_Witness ==
  /\ Formatted
  /\ op0.opcode = "CBRANCH"
  /\ op0.output # None
  /\ op0.inputs[1] # op0.inputs[2]

\* C8 as claimed: the same, with the unary form 'op operand', a space between
\* operator and operand.
C8_Original ==
  Formatted =>
    /\ ~fmt_last.raised
    /\ \/ fmt_last.val = Rendering(op0, " ", "")
       \/ /\ op0.opcode = "STORE"
          /\ fmt_last.val \in { Rendering(op0, " ", OperandRule(op0.inputs[3])),
                                Rendering(op0, " ", GenericForm(op0.inputs[3])) }

\* C9 as claimed: every operand in the output of fmt_op, the value a STORE
\* stores included, is rendered by the operand rule.
C9_OperandRule ==
  Formatted =>
    fmt_last.val =
      Rendering(op0, "", IF op0.opcode = "STORE" THEN OperandRule(op0.inputs[3]) ELSE "")

\* C10: every fmt_op(op) returns what the first one returned, whatever was
\* formatted in between, and leaves opcode, output, inputs and sequence number
\* of op as they were.
C10_Idempotent ==
  /\ op = op0
  /\ fmt_first # None => fmt_last = fmt_first

\* C10 witness: a LOAD with an output was formatted twice, with another
\* operation formatted in between or around.
C10_Witness ==
  /\ fmt_calls # None
  /\ fmt_calls.self >= 2
  /\ fmt_calls.other >= 1
  /\ op0.opcode = "LOAD"
  /\ ~fmt_last.raised

\* C11 as claimed: fmt_op has no error path; whatever the opcode of op and
\* however many inputs it carries, a call of fmt_op returns a string.
C11_NoErrorPath ==
  fmt_last # None => ~fmt_last.raised

\* C11 witness: an operation of an unregistered opcode that carries no input
\* at all was formatted, and the fallback form came back.
C11_Witness ==
  /\ fmt_last # None
  /\ op0.opcode \in UnregisteredOpcodes
  /\ op0.inputs = <<>>
  /\ ~fmt_last.raised

(***************************************************************************)
(* SpecVn: Varnodes of a constructed Context, built by Varnode(...) and by  *)
(* Varnode.from_c, compared with == and added to a set.                    *)
(***************************************************************************)
MaxVarnodes == 3

\* The raw varnodes handed to Varnode.from_c, and (with the space resolved)
\* the arguments of Varnode(...): the first one, and one that differs from it
\* in the size, one in the offset, one in the space.
RawVarnodes ==
  { [space |-> HandleOf("register"), offset |-> 0, size |-> 4],
    [space |-> HandleOf("register"), offset |-> 0, size |-> 1],
    [space |-> HandleOf("register"), offset |-> 4, size |-> 4],
    [space |-> HandleOf("ram"), offset |-> 0, size |-> 4] }

\* Varnode.__hash__: hash((self.space.name, self.offset, self.size)); equal
\* tuples hash alike, and no two different tuples here collide.
Varnode_hash(vn) == <<heap[vn.space].name, vn.offset, vn.size>>

\* a == b of the Varnodes with ids a and b.  Varnode, ContextObj define no
\* __eq__: the comparison is object.__eq__, the identity of the two objects.
Varnode_eq(a, b) == a = b

\* set.add(x): x is a member already when an entry of the same hash is x
\* itself or compares equal to it.
set_add(set, x) ==
  IF \E m \in set : /\ Varnode_hash(varnodes[m]) = Varnode_hash(varnodes[x])
                    /\ (m = x \/ Varnode_eq(m, x))
    THEN set
    ELSE set \cup {x}

\* Varnode(ctx, space, offset, size).
NewVarnode(space, offset, size) ==
  /\ Len(varnodes) < MaxVarnodes
  /\ varnodes' = Append(varnodes, [space |-> space, offset |-> offset, size |-> size])
  /\ UNCHANGED <<regvars, trvars, last_ret, errvars, fmtvars, seen, cmp>>

\* Varnode.from_c(ctx, cobj).
VarnodeFromC(cobj) ==
  /\ Len(varnodes) < MaxVarnodes
  /\ LET r == Varnode_from_c(Registry, cobj) IN
       /\ varnodes' = Append(varnodes, r.val)
       /\ cached_addr_spaces' = r.reg.cache
       /\ heap' = r.reg.heap
       /\ resolved' = Note(resolved, <<cobj.space>>, <<r.val.space>>)
  /\ UNCHANGED <<spaces, init_i, trvars, last_ret, errvars, fmtvars, seen, cmp>>

\* a == b, hash(a), hash(b).
Compare(a, b) ==
  /\ cmp' = [a |-> a, b |-> b, eq |-> Varnode_eq(a, b),
             hash_a |-> Varnode_hash(varnodes[a]), hash_b |-> Varnode_hash(varnodes[b])]
  /\ UNCHANGED <<regvars, trvars, last_ret, errvars, fmtvars, varnodes, seen>>

\* seen.add(a).
SetAdd(a) ==
  /\ seen' = set_add(seen, a)
  /\ UNCHANGED <<regvars, trvars, last_ret, errvars, fmtvars, varnodes, cmp>>

InitVn ==
  /\ InitConstructed
  /\ raw_error = None
  /\ classified = None
  /\ op = None
  /\ op0 = None
  /\ fmt_first = None
  /\ fmt_last = None
  /\ fmt_calls = None
  /\ NoVarnodes

NextVn ==
  \/ \E v \in RawVarnodes : NewVarnode(cached_addr_spaces[v.space], v.offset, v.size)
  \/ \E v \in RawVarnodes : VarnodeFromC(v)
  \/ \E a, b \in 1..Len(varnodes) : Compare(a, b)
  \/ \E a \in 1..Len(varnodes) : SetAdd(a)

SpecVn == InitVn /\ [][NextVn]_vars

\* C12 as claimed: Varnodes with the same (space, offset, size) compare equal,
\* hash alike and are one entry of a set; Varnodes that differ in space, offset
\* or size compare unequal.
C12_StructuralEquality ==
  /\ cmp # None =>
       /\ cmp.eq <=> varnodes[cmp.a] = varnodes[cmp.b]
       /\ cmp.eq => cmp.hash_a = cmp.hash_b
  /\ \A m, n \in seen : varnodes[m] = varnodes[n] => m = n

\* C12 witness: two Varnode objects with the same space, offset and size were
\* compared, and both were added to the set.
C12_Witness ==
  /\ cmp # None
  /\ cmp.a # cmp.b
  /\ varnodes[cmp.a] = varnodes[cmp.b]
  /\ \E m \in seen : varnodes[m] = varnodes[cmp.a]

(***************************************************************************)
(* The parameters of the delay-slot sub-decodes, checked under Spec.       *)
(***************************************************************************)
\* The instructions insts, copied from the decode with index p of the log,
\* have their delay slots from sub-decodes with the parameters of line 186.
RECURSIVE SubDecodeParams(_, _)
SubDecodeParams(insts, p) ==
  /\ SameInsts(insts, decodes[p].reported)
  /\ \A k \in 1..Len(insts) :
       LET t == insts[k]
           after == t.address.offset + t.length - decodes[p].base
       IN t.length_delay # 0 =>
            /\ t.ds_decode \in (p + 1)..Len(decodes)
            /\ LET d == decodes[t.ds_decode] IN
                 /\ d.lo = decodes[p].lo + after
                 /\ d.code_len = decodes[p].code_len - after
                 /\ d.base = t.address.offset + t.length
                 /\ d.max_bytes = t.length_delay
                 /\ d.max_inst = 0
                 /\ ~d.bb_terminating
                 /\ ~d.bb_nonlinear_terminating
                 /\ SubDecodeParams(t.delayslot_instructions, t.ds_decode)

\* C13: in a result that translate returns without error, every instruction
\* with a nonzero delay-slot length holds the instruction list of a decode of
\* the rest of the buffer from the byte after the instruction on, at the
\* address after the instruction, called with max_bytes = the delay-slot
\* length, max_inst = 0 and both basic-block flags off; order, count, address,
\* length and delay-slot length of the instructions are as the oracle
\* reported them.
C13_SubDecodeParams ==
  (outcome = "returned" /\ result.error = None) =>
    SubDecodeParams(result.instructions, 1)

\* C13 witness: a call with an instruction limit and the basic-block flags
\* set returned without error, and its first instruction holds a populated
\* delay-slot list.
C13_Witness ==
  /\ outcome = "returned"
  /\ result.error = None
  /\ decodes[1].max_inst = 1
  /\ decodes[1].bb_terminating
  /\ result.instructions # <<>>
  /\ result.instructions[1].length_delay # 0
  /\ result.instructions[1].delayslot_instructions # <<>>

====
